---------------------------- MODULE Spec2Model ----------------------------
(* A model of the lights inference code: the QNMCEM and MLMM learners of     *)
(* src/lights/inference.py and the Penalties class of                        *)
(* src/lights/model/regularizations.py.                                      *)
(*                                                                           *)
(* Numbers.  Coefficients are small integers.  The mixing parameter eta is   *)
(* the fraction eta_n / EtaDen, and every penalty or objective value of      *)
(* QNMCEM is stored multiplied by PenScale = 2 * EtaDen, which makes it an   *)
(* integer.  A numpy float that may be NaN or infinite is a record           *)
(* [k, num, den]: k = "num" is the fraction num / den.  MLMM's objective is  *)
(* a Python int, whose division by zero raises ZeroDivisionError.            *)
(*                                                                           *)
(* A fit() call is modelled in three steps: FitStart, FitInit (the MLMM      *)
(* initializer, which may raise) and FitRun (the EM loop and the last        *)
(* history record).  MLMM.fit raises in its first iteration, so FitRun is    *)
(* reached with max_iter = 0 only and QNMCEM_loop then runs no iteration.    *)
EXTENDS Integers, Sequences, FiniteSets, TLC

VARIABLES
    cfg,            \* the QNMCEM instance's configuration attributes
    pc,             \* position of the current fit() call
    n_feat,         \* X.shape[1] of the current fit() call
    self_xi_ext,    \* self.xi_ext: <<>> is None, <<v>> is the vector v
    history,        \* self.history of the QNMCEM instance
    mlmm_history,   \* the history of the MLMM instance built by fit()
    loc,            \* the locals of fit(): xi_ext, obj, rel_obj, n_iter
    iters,          \* per executed EM iteration: what it read and produced
    fit_log,        \* the records the current fit() call appended itself
    prev_run,       \* <<>> or <<r>>: how the previous fit() call ended
    n_fits,         \* number of fit() calls started
    solver,         \* which deterministic optimizer fmin_l_bfgs_b stands for
    pen,            \* <<>> or <<p>>: the Penalties object
    pen_last,       \* the last construction or assignment on it
    en_call,        \* the last penalty evaluation: arguments and result
    call            \* the last call of another function: arguments and result

fitVars == <<cfg, pc, n_feat, self_xi_ext, history, mlmm_history, loc, iters,
             fit_log, prev_run, n_fits, solver>>
penVars == <<pen, pen_last, en_call, call>>
vars == <<cfg, pc, n_feat, self_xi_ext, history, mlmm_history, loc, iters,
          fit_log, prev_run, n_fits, solver, pen, pen_last, en_call, call>>

---------------------------------------------------------------------------
(* Bounds of the model.                                                      *)
MaxIter == 2
MaxFeatures == 1
MaxPrintEvery == 2
MaxLPen == 1
EtaDen == 2
MaxFits == 3
MaxCoef == 1

(* tol = 1e-5, the default of QNMCEM.__init__ and MLMM.__init__.             *)
TolNum == 1
TolDen == 100000

PenScale == 2 * EtaDen

---------------------------------------------------------------------------
(* Vectors are sequences of integers.                                        *)
RECURSIVE Sum(_)
Sum(s) == IF s = <<>> THEN 0 ELSE Head(s) + Sum(Tail(s))

RECURSIVE SqNorm(_)
SqNorm(s) == IF s = <<>> THEN 0 ELSE Head(s) * Head(s) + SqNorm(Tail(s))

Zeros(k) == [i \in 1..k |-> 0]

Abs(x) == IF x < 0 THEN -x ELSE x

VecSub(a, b) == [i \in 1..Len(a) |-> a[i] - b[i]]

(* np.delete(v, idx): the entries of v whose (1-based) index is not in idx.  *)
RECURSIVE Delete(_, _, _)
Delete(v, idx, i) ==
    IF i > Len(v) THEN <<>>
    ELSE IF i \in idx THEN Delete(v, idx, i + 1)
    ELSE <<v[i]>> \o Delete(v, idx, i + 1)

Vectors(k, lo, hi) == [1..k -> lo..hi]

---------------------------------------------------------------------------
(* numpy floats.                                                             *)
Num(a, b) == [k |-> "num", num |-> a, den |-> b]
NaN == [k |-> "nan", num |-> 0, den |-> 1]
Inf == [k |-> "inf", num |-> 1, den |-> 1]

(* a < tol on floats: every comparison with NaN is False, inf < tol is False *)
LessTol(r) == r.k = "num" /\ r.num * TolDen < TolNum * r.den

Finite(r) == r.k = "num"

---------------------------------------------------------------------------
(* Signed decomposition and the elastic-net penalty of QNMCEM.               *)
(* n is self.n_time_indep_features; indices are 1-based here.                *)

(* The two halves added and all entries kept: what the signed decomposition  *)
(* and the removal of the intercept are not.                                 *)
AddHalves(xi_ext, fit_intercept, n) ==
    LET d == Len(xi_ext) \div 2
        xi == [i \in 1..d |-> xi_ext[i] + xi_ext[i + d]]
    IN  IF fit_intercept THEN [xi_0 |-> xi[1], xi |-> Tail(xi)]
        ELSE [xi_0 |-> 0, xi |-> xi]

KeepAll(xi_ext, fit_intercept, n) == xi_ext

_get_xi_from_xi_ext(xi_ext, fit_intercept, n) ==
    IF fit_intercept
    THEN LET xi == VecSub(SubSeq(xi_ext, 1, n + 1),
                          SubSeq(xi_ext, n + 2, Len(xi_ext)))
         IN  [xi_0 |-> xi[1], xi |-> Tail(xi)]
    ELSE [xi_0 |-> 0,
          xi |-> VecSub(SubSeq(xi_ext, 1, n), SubSeq(xi_ext, n + 1, Len(xi_ext)))]

_clean_xi_ext(xi_ext, fit_intercept, n) ==
    IF fit_intercept THEN Delete(xi_ext, {1, n + 2}, 1) ELSE xi_ext

(* PenScale * l_elastic_net * ((1 - eta) * xi_ext.sum() + 0.5 * eta * |xi|^2) *)
_elastic_net_pen(xi_ext, fit_intercept, n, l_elastic_net, eta) ==
    LET xi == _get_xi_from_xi_ext(xi_ext, fit_intercept, n).xi
        clean == _clean_xi_ext(xi_ext, fit_intercept, n)
    IN  l_elastic_net * ((EtaDen - eta) * 2 * Sum(clean) + eta * SqNorm(xi))

(* np.mean(np.log(prb)) with prb = 1                                         *)
_log_lik == 0

_func_obj(xi_ext, c, n) ==
    -_log_lik + _elastic_net_pen(xi_ext, c.fit_intercept, n, c.l_elastic_net, c.eta)

---------------------------------------------------------------------------
(* History: an ordered log of (n_iter, obj, rel_obj) records.                *)
HistoryClear == <<>>

HistoryUpdate(h, n_iter, obj, rel_obj) ==
    Append(h, [n_iter |-> n_iter, obj |-> obj, rel_obj |-> rel_obj])

(* Learner._start_solve: the history it leaves.                              *)
KeepHistory(h) == h

_start_solve(h) == HistoryClear

---------------------------------------------------------------------------
(* MLMM.                                                                     *)
MLMM_log_lik == 0

(* One pass of "for n_iter in range(max_iter)"; st.i is the next value of    *)
(* the loop variable, st.n_iter the value the variable holds.                *)
RECURSIVE MLMM_loop(_, _, _)
MLMM_loop(st, max_iter, print_every) ==
    IF st.i >= max_iter THEN st
    ELSE
      LET h1 == IF st.i % print_every = 0
                THEN HistoryUpdate(st.hist, st.i, st.obj, st.rel_obj)
                ELSE st.hist
          prev_obj == st.obj
          obj == -MLMM_log_lik
      IN  IF Abs(prev_obj) = 0
          THEN \* int / int with a zero divisor: ZeroDivisionError
               [st EXCEPT !.n_iter = st.i, !.hist = h1, !.obj = obj,
                          !.outcome = "raised"]
          ELSE LET rel_obj == Num(Abs(obj - prev_obj), Abs(prev_obj))
                   st1 == [st EXCEPT !.n_iter = st.i, !.hist = h1, !.obj = obj,
                                     !.rel_obj = rel_obj, !.i = st.i + 1]
               IN  IF st.i > max_iter \/ LessTol(rel_obj)
                   THEN st1
                   ELSE MLMM_loop(st1, max_iter, print_every)

MLMM_fit(max_iter, print_every) ==
    LET obj0 == -MLMM_log_lik
        h0 == HistoryUpdate(_start_solve(<<>>), 0, obj0, Num(1, 1))
        st == MLMM_loop([i |-> 0, n_iter |-> 0, obj |-> obj0,
                         rel_obj |-> Num(1, 1), hist |-> h0,
                         outcome |-> "returned"], max_iter, print_every)
    IN  IF st.outcome = "raised"
        THEN [outcome |-> "raised", hist |-> st.hist]
        ELSE [outcome |-> "returned",
              hist |-> HistoryUpdate(st.hist, st.n_iter + 1, st.obj, st.rel_obj)]

---------------------------------------------------------------------------
(* QNMCEM.fit.                                                               *)

(* fmin_l_bfgs_b(func, x0, fprime, bounds = [(0, None)] * len(x0), ...)[0]:  *)
(* some deterministic function of its arguments whose result respects the    *)
(* bounds.  Three such functions stand for it.                               *)
Solvers == {"zero", "unit", "step"}

Minimize(tag, x0) ==
    CASE tag = "zero" -> Zeros(Len(x0))
      [] tag = "unit" -> [i \in 1..Len(x0) |-> IF i = 1 THEN 1 ELSE 0]
      [] tag = "step" -> [i \in 1..Len(x0) |->
                            IF i = 1 /\ x0[1] < MaxCoef THEN x0[1] + 1 ELSE x0[i]]

(* abs(obj - prev_obj) / abs(prev_obj) on numpy floats: a zero divisor gives *)
(* NaN (0 / 0) or inf, with a RuntimeWarning and no exception.               *)
RelObjFloat(obj, prev_obj) ==
    IF Abs(prev_obj) = 0
    THEN IF Abs(obj - prev_obj) = 0 THEN NaN ELSE Inf
    ELSE Num(Abs(obj - prev_obj), Abs(prev_obj))

(* The x0 of a P-minimization.                                               *)
StartPoint(warm_start, xi_ext, d) == IF warm_start THEN xi_ext ELSE Zeros(2 * d)

(* One pass of "for n_iter in range(max_iter)" of QNMCEM.fit.  self.xi_ext   *)
(* is read by predict_proba and assigned nowhere in the loop.  d is the      *)
(* local n_time_indep_features (the intercept counted).                      *)
RECURSIVE QNMCEM_loop(_, _, _, _, _)
QNMCEM_loop(st, c, n, slv, own_xi_ext) ==
    IF st.i >= c.max_iter THEN st
    ELSE
      LET d == IF c.fit_intercept THEN n + 1 ELSE n
          upd == st.i % c.print_every = 0
          h1 == IF upd THEN HistoryUpdate(st.hist, st.i, st.obj, st.rel_obj)
                ELSE st.hist
          a1 == IF upd
                THEN Append(st.appended, [n_iter |-> st.i, obj |-> st.obj,
                                          rel_obj |-> st.rel_obj])
                ELSE st.appended
          pi_from == own_xi_ext
          x0 == StartPoint(c.warm_start, st.xi_ext, d)
          xi_ext == Minimize(slv, x0)
          prev_obj == st.obj
          obj == _func_obj(xi_ext, c, n)
          rel_obj == RelObjFloat(obj, prev_obj)
          st1 == [i |-> st.i + 1, n_iter |-> st.i, xi_ext |-> xi_ext,
                  obj |-> obj, rel_obj |-> rel_obj, hist |-> h1,
                  appended |-> a1,
                  iters |-> Append(st.iters, [pi_from |-> pi_from, x0 |-> x0,
                                              xi_ext |-> xi_ext,
                                              rel_obj |-> rel_obj]),
                  stop |-> IF LessTol(rel_obj) THEN "tol" ELSE "cap"]
      IN  IF st.i > c.max_iter \/ LessTol(rel_obj)
          THEN st1
          ELSE QNMCEM_loop(st1, c, n, slv, own_xi_ext)

Resting == pc \in {"idle", "done", "raised"}

(* The MLMM instance of fit() has a history of its own.                      *)
ShareHistory(h, m) == h \o m.hist

AfterInitializer(h, m) == h

(* lines 585-601: _start_solve and the zero xi_ext                           *)
FitStart(n) ==
    /\ Resting
    /\ n_fits < MaxFits
    /\ LET d == IF cfg.fit_intercept THEN n + 1 ELSE n
       IN  /\ self_xi_ext' = <<Zeros(2 * d)>>
           /\ loc' = [xi_ext |-> Zeros(2 * d), obj |-> 0,
                      rel_obj |-> Num(1, 1), n_iter |-> 0]
    /\ n_feat' = n
    /\ history' = _start_solve(history)
    /\ fit_log' = <<>>
    /\ iters' = <<>>
    /\ mlmm_history' = <<>>
    /\ prev_run' = IF pc = "idle" THEN <<>>
                   ELSE <<[cfg |-> cfg, n |-> n_feat, outcome |-> pc,
                           history |-> history, obj |-> loc.obj,
                           xi_ext |-> loc.xi_ext]>>
    /\ n_fits' = n_fits + 1
    /\ pc' = "started"
    /\ UNCHANGED <<cfg, solver, penVars>>

(* lines 603-613: the initializer; its exception leaves fit()                *)
FitInit ==
    /\ pc = "started"
    /\ LET m == MLMM_fit(cfg.max_iter, cfg.print_every)
       IN  /\ mlmm_history' = m.hist
           /\ history' = AfterInitializer(history, m)
           /\ pc' = IF m.outcome = "raised" THEN "raised" ELSE "initialized"
    /\ UNCHANGED <<cfg, n_feat, self_xi_ext, loc, iters, fit_log, prev_run,
                   n_fits, solver, penVars>>

(* lines 620-679: the first objective, the EM loop and the last record       *)
FitRun ==
    /\ pc = "initialized"
    /\ LET obj0 == _func_obj(loc.xi_ext, cfg, n_feat)
           st == QNMCEM_loop([i |-> 0, n_iter |-> 0, xi_ext |-> loc.xi_ext,
                              obj |-> obj0, rel_obj |-> Num(1, 1),
                              hist |-> history, appended |-> <<>>,
                              iters |-> <<>>, stop |-> "cap"],
                             cfg, n_feat, solver, self_xi_ext[1])
       IN  /\ history' = HistoryUpdate(st.hist, st.n_iter + 1, st.obj, st.rel_obj)
           /\ fit_log' = fit_log \o Append(st.appended,
                            [n_iter |-> st.n_iter + 1, obj |-> st.obj,
                             rel_obj |-> st.rel_obj])
           /\ loc' = [xi_ext |-> st.xi_ext, obj |-> st.obj,
                      rel_obj |-> st.rel_obj, n_iter |-> st.n_iter]
           /\ iters' = st.iters
    /\ pc' = "done"
    /\ UNCHANGED <<cfg, n_feat, self_xi_ext, mlmm_history, prev_run, n_fits,
                   solver, penVars>>

(* cross_validate, line 805: learner.l_elastic_net = l_elastic_net           *)
SetLElasticNet(v) ==
    /\ Resting
    /\ v # cfg.l_elastic_net
    /\ cfg' = [cfg EXCEPT !.l_elastic_net = v]
    /\ UNCHANGED <<pc, n_feat, self_xi_ext, history, mlmm_history, loc, iters,
                   fit_log, prev_run, n_fits, solver, penVars>>

Configs == [max_iter : 0..MaxIter, warm_start : BOOLEAN, fit_intercept : BOOLEAN,
            l_elastic_net : 0..MaxLPen, eta : 0..EtaDen,
            print_every : 1..MaxPrintEvery]

InitPen ==
    /\ pen = <<>>
    /\ pen_last = <<>>
    /\ en_call = <<>>
    /\ call = <<>>

(* QNMCEM.__init__                                                           *)
InitFit ==
    /\ cfg \in Configs
    /\ solver \in Solvers
    /\ pc = "idle"
    /\ n_feat = 0
    /\ self_xi_ext = <<>>
    /\ history = <<>>
    /\ mlmm_history = <<>>
    /\ loc = [xi_ext |-> <<>>, obj |-> 0, rel_obj |-> Num(1, 1), n_iter |-> 0]
    /\ iters = <<>>
    /\ fit_log = <<>>
    /\ prev_run = <<>>
    /\ n_fits = 0

Init == InitFit /\ InitPen

Next ==
    \/ \E n \in 1..MaxFeatures : FitStart(n)
    \/ FitInit
    \/ FitRun
    \/ \E v \in 0..MaxLPen : SetLElasticNet(v)

Spec == Init /\ [][Next]_vars

---------------------------------------------------------------------------
(* Penalties (regularizations.py).  A parameter value is a float: Num(a, b)  *)
(* or NaN; l_pen = Num(l, 1) and an eta = Num(eta_n, EtaDen).                *)

(* val >= 0 and val <= 1 on floats; a comparison with NaN is False           *)
Geq0(val) == val.k = "num" /\ val.num >= 0
Leq1(val) == val.k = "num" /\ val.num <= val.den

Unset == [k |-> "unset", num |-> 0, den |-> 1]

(* The property setters: [raised, obj], obj the object they leave.           *)
l_pen_setter(obj, val) ==
    IF ~Geq0(val)
    THEN [raised |-> TRUE, obj |-> obj]
    ELSE [raised |-> FALSE, obj |-> [obj EXCEPT !.l_pen = val]]

(* what the error message says, "must be in (0, 1)"                          *)
eta_elastic_net_setter_open(obj, val) ==
    IF ~(val.k = "num" /\ 0 < val.num /\ val.num < val.den)
    THEN [raised |-> TRUE, obj |-> obj]
    ELSE [raised |-> FALSE, obj |-> [obj EXCEPT !.eta_elastic_net = val]]

eta_elastic_net_setter(obj, val) ==
    IF ~(Geq0(val) /\ Leq1(val))
    THEN [raised |-> TRUE, obj |-> obj]
    ELSE [raised |-> FALSE, obj |-> [obj EXCEPT !.eta_elastic_net = val]]

eta_sp_gp_l1_setter(obj, val) ==
    IF ~(Geq0(val) /\ Leq1(val))
    THEN [raised |-> TRUE, obj |-> obj]
    ELSE [raised |-> FALSE, obj |-> [obj EXCEPT !.eta_sp_gp_l1 = val]]

(* Penalties.__init__: the four assignments in order, the first ValueError   *)
(* leaving the constructor.                                                  *)
Penalties_init(fit_intercept, l_pen, eta_elastic_net, eta_sp_gp_l1) ==
    LET o0 == [fit_intercept |-> fit_intercept, l_pen |-> Unset,
               eta_elastic_net |-> Unset, eta_sp_gp_l1 |-> Unset]
        r1 == l_pen_setter(o0, l_pen)
        r2 == IF r1.raised THEN r1 ELSE eta_elastic_net_setter(r1.obj, eta_elastic_net)
        r3 == IF r2.raised THEN r2 ELSE eta_sp_gp_l1_setter(r2.obj, eta_sp_gp_l1)
    IN  r3

(* lights.base.base: the signed recomposition and the removal of the two     *)
(* intercept entries, on a vector whose halves have equal length.            *)
get_xi_from_xi_ext(xi_ext, fit_intercept) ==
    LET d == Len(xi_ext) \div 2
        w == VecSub(SubSeq(xi_ext, 1, d), SubSeq(xi_ext, d + 1, 2 * d))
    IN  IF fit_intercept THEN [xi_0 |-> w[1], xi |-> Tail(w)]
        ELSE [xi_0 |-> 0, xi |-> w]

clean_xi_ext(xi_ext, fit_intercept) ==
    IF fit_intercept THEN Delete(xi_ext, {1, Len(xi_ext) \div 2 + 1}, 1)
    ELSE xi_ext

(* PenScale * l_pen * ((1 - eta) * xi_ext.sum() + 0.5 * eta * |xi|^2)        *)
elastic_net(obj, xi_ext) ==
    LET l_pen == obj.l_pen.num
        eta == obj.eta_elastic_net.num
        xi == get_xi_from_xi_ext(xi_ext, obj.fit_intercept).xi
        clean == clean_xi_ext(xi_ext, obj.fit_intercept)
    IN  l_pen * ((EtaDen - eta) * 2 * Sum(clean) + eta * SqNorm(xi))

LPenInputs == {Num(l, 1) : l \in -1..MaxLPen} \cup {NaN}
(* below the range, its two ends, one value inside, above it, and NaN        *)
EtaInputs == {Num(e, EtaDen) : e \in {-1, 0, 1, EtaDen, EtaDen + 1}} \cup {NaN}

PenConstruct(fi, l, e1, e2) ==
    /\ LET r == Penalties_init(fi, l, e1, e2)
       IN  /\ pen' = IF r.raised THEN pen ELSE <<r.obj>>
           /\ pen_last' = <<[op |-> "init", raised |-> r.raised, before |-> pen,
                             given |-> [l_pen |-> l, eta_elastic_net |-> e1,
                                        eta_sp_gp_l1 |-> e2]]>>
    /\ UNCHANGED <<en_call, call, fitVars>>

(* obj.<field> = val on the object at hand, r what the setter returned      *)
Assigned(field, val, r) ==
    /\ pen' = <<r.obj>>
    /\ pen_last' = <<[op |-> "set", raised |-> r.raised, before |-> pen,
                      given |-> (field :> val)]>>
    /\ UNCHANGED <<en_call, call, fitVars>>

SetLPen(val) ==
    /\ pen # <<>>
    /\ Assigned("l_pen", val, l_pen_setter(pen[1], val))

SetEtaElasticNet(val) ==
    /\ pen # <<>>
    /\ Assigned("eta_elastic_net", val, eta_elastic_net_setter(pen[1], val))

SetEtaSpGpL1(val) ==
    /\ pen # <<>>
    /\ Assigned("eta_sp_gp_l1", val, eta_sp_gp_l1_setter(pen[1], val))

NextPen ==
    \/ \E fi \in BOOLEAN, l \in LPenInputs, e1 \in EtaInputs, e2 \in EtaInputs :
          PenConstruct(fi, l, e1, e2)
    \/ \E val \in LPenInputs : SetLPen(val)
    \/ \E val \in EtaInputs : SetEtaElasticNet(val)
    \/ \E val \in EtaInputs : SetEtaSpGpL1(val)

(* The fit variables rest in SpecPen and SpecEN.                             *)
InitRest ==
    /\ cfg = [max_iter |-> 0, warm_start |-> FALSE, fit_intercept |-> FALSE,
              l_elastic_net |-> 0, eta |-> 0, print_every |-> 1]
    /\ solver = "zero"
    /\ pc = "idle"
    /\ n_feat = 0
    /\ self_xi_ext = <<>>
    /\ history = <<>>
    /\ mlmm_history = <<>>
    /\ loc = [xi_ext |-> <<>>, obj |-> 0, rel_obj |-> Num(1, 1), n_iter |-> 0]
    /\ iters = <<>>
    /\ fit_log = <<>>
    /\ prev_run = <<>>
    /\ n_fits = 0

InitPenalties == InitRest /\ InitPen

SpecPen == InitPenalties /\ [][NextPen]_vars

(* The two elastic-net penalties applied to drawn arguments.                 *)
EvalQnmcemPen(xi_ext, fi, n, l, eta) ==
    /\ en_call' = <<[who |-> "QNMCEM", xi_ext |-> xi_ext, fit_intercept |-> fi,
                     l |-> l, eta |-> eta,
                     value |-> _elastic_net_pen(xi_ext, fi, n, l, eta)]>>
    /\ UNCHANGED <<pen, pen_last, call, fitVars>>

EvalPenaltiesPen(xi_ext, fi, l, eta) ==
    /\ LET r == Penalties_init(fi, Num(l, 1), Num(eta, EtaDen), Num(0, EtaDen))
       IN  /\ ~r.raised
           /\ en_call' = <<[who |-> "Penalties", xi_ext |-> xi_ext,
                            fit_intercept |-> fi, l |-> l, eta |-> eta,
                            value |-> elastic_net(r.obj, xi_ext)]>>
    /\ UNCHANGED <<pen, pen_last, call, fitVars>>

NextEN ==
    \/ \E fi \in BOOLEAN, n \in 1..MaxFeatures, l \in 0..MaxLPen, eta \in 0..EtaDen :
         \E xi_ext \in Vectors(2 * (IF fi THEN n + 1 ELSE n), 0, MaxCoef) :
            EvalQnmcemPen(xi_ext, fi, n, l, eta)
    \/ \E fi \in BOOLEAN, n \in 1..MaxFeatures, l \in 0..MaxLPen, eta \in 0..EtaDen :
         \E xi_ext \in Vectors(2 * (IF fi THEN n + 1 ELSE n), 0, MaxCoef) :
            EvalPenaltiesPen(xi_ext, fi, l, eta)

SpecEN == InitPenalties /\ [][NextEN]_vars

---------------------------------------------------------------------------
(* The estimator from its construction on: __init__, cross_validate's        *)
(* assignment, fit() and score().                                            *)

(* what __init__ and cross_validate are given: in range, and one step out    *)
(* of it on either side                                                      *)
CtorArgs == [max_iter : 0..MaxIter, warm_start : BOOLEAN,
             fit_intercept : BOOLEAN, l_elastic_net : -1..MaxLPen,
             eta : -1..(EtaDen + 1), print_every : 1..MaxPrintEvery]

(* QNMCEM.__init__: the attributes an instance starts with                   *)
QNMCEM_attributes(c) ==
    [max_iter |-> c.max_iter, warm_start |-> c.warm_start,
     fit_intercept |-> c.fit_intercept, l_elastic_net |-> c.l_elastic_net,
     eta |-> c.eta, print_every |-> c.print_every]

QNMCEM_init(c) ==
    /\ pc = "none"
    /\ cfg' = QNMCEM_attributes(c)
    /\ self_xi_ext' = <<>>
    /\ history' = <<>>
    /\ pc' = "idle"
    /\ UNCHANGED <<n_feat, mlmm_history, loc, iters, fit_log, prev_run, n_fits,
                   solver, penVars>>

(* predict_marker: "marker = None", returned as it is; <<>> is None          *)
predict_marker(X, Y) == <<>>

(* lifelines' concordance_index(event_times, predicted_scores,               *)
(* event_observed): how a call can end.  Given None for the scores it has    *)
(* nothing to rank: it leaves with an exception, or returns NaN.             *)
c_index_score(T, marker, delta) ==
    IF marker = <<>> THEN {[outcome |-> "raised", value |-> Unset],
                           [outcome |-> "returned", value |-> NaN]}
    ELSE {[outcome |-> "returned", value |-> Unset]}

(* score(X, Y, T, delta, metric): the ways the call can end                  *)
score(d, metric) ==
    IF metric = "log_lik"
    THEN {[outcome |-> "returned", value |-> Num(_log_lik, 1), marker |-> <<>>]}
    ELSE IF metric = "C-index"
    THEN LET m == predict_marker(d.X, d.Y)
         IN  {[outcome |-> r.outcome, value |-> r.value, marker |-> m] :
                 r \in c_index_score(d.T, m, d.delta)}
    ELSE {[outcome |-> "ValueError", value |-> Unset, marker |-> <<>>]}

Metrics == {"log_lik", "C-index", "AUC"}

(* test data of two subjects: features, event times, censoring indicators    *)
ScoreData == {[X |-> <<<<0>>, <<1>>>>, Y |-> <<>>, T |-> <<1, 2>>, delta |-> dl] :
                 dl \in {<<1, 1>>, <<1, 0>>}}

Score(d, metric, r) ==
    /\ Resting
    /\ r \in score(d, metric)
    /\ UNCHANGED fitVars
    /\ call' = <<[who |-> "score", metric |-> metric, data |-> d,
                  outcome |-> r.outcome, value |-> r.value, marker |-> r.marker,
                  before |-> <<cfg, self_xi_ext, history, n_feat>>,
                  after |-> <<cfg', self_xi_ext', history', n_feat'>>]>>
    /\ UNCHANGED <<pen, pen_last, en_call>>

(* No instance yet.                                                          *)
InitEstimator ==
    /\ cfg = [max_iter |-> 0, warm_start |-> FALSE, fit_intercept |-> FALSE,
              l_elastic_net |-> 0, eta |-> 0, print_every |-> 1]
    /\ solver = "zero"
    /\ pc = "none"
    /\ n_feat = 0
    /\ self_xi_ext = <<>>
    /\ history = <<>>
    /\ mlmm_history = <<>>
    /\ loc = [xi_ext |-> <<>>, obj |-> 0, rel_obj |-> Num(1, 1), n_iter |-> 0]
    /\ iters = <<>>
    /\ fit_log = <<>>
    /\ prev_run = <<>>
    /\ n_fits = 0
    /\ pen = <<>>
    /\ pen_last = <<>>
    /\ en_call = <<>>
    /\ call = <<>>

NextEstimator ==
    \/ \E c \in CtorArgs : QNMCEM_init(c)
    \/ \E n \in 1..MaxFeatures : FitStart(n)
    \/ FitInit
    \/ FitRun
    \/ \E v \in -1..MaxLPen : SetLElasticNet(v)
    \/ \E d \in ScoreData, metric \in Metrics :
          \E r \in score(d, metric) : Score(d, metric, r)

SpecEstimator == InitEstimator /\ [][NextEstimator]_vars

---------------------------------------------------------------------------
(* The logistic functions and the P sub-objective.                           *)
(*                                                                           *)
(* 1 / (1 + exp(-a)) and log(1 + exp(-a)) are irrational for most a, so a    *)
(* value built from them is kept as a term: the record [c, s] stands for     *)
(* c + sum over a in 0..UMax of s[a] * f(a), with f one of the two functions *)
(* on a >= 0.  pi_est is the vector of fractions pi_est[i] / PiDen.          *)
PiDen == 2

(* |xi_0 + X.dot(xi)| for the designs and coefficients drawn below           *)
UMax == MaxCoef * (MaxFeatures + 1)

RECURSIVE Dot(_, _)
Dot(a, b) == IF a = <<>> THEN 0 ELSE Head(a) * Head(b) + Dot(Tail(a), Tail(b))

TermConst(k) == [c |-> k, s |-> [a \in 0..UMax |-> 0]]

TermAdd(x, y) == [c |-> x.c + y.c, s |-> [a \in 0..UMax |-> x.s[a] + y.s[a]]]

TermScale(k, x) == [c |-> k * x.c, s |-> [a \in 0..UMax |-> k * x.s[a]]]

RECURSIVE TermSum(_)
TermSum(ts) == IF ts = <<>> THEN TermConst(0)
               ELSE TermAdd(Head(ts), TermSum(Tail(ts)))

(* the term f(a), a >= 0                                                     *)
TermAt(z) == [c |-> 0, s |-> [a \in 0..UMax |-> IF a = z THEN 1 ELSE 0]]

(* 1 / (1 + exp(-z)): for z < 0 computed as 1 - 1 / (1 + exp(z))             *)
logistic_grad(z) ==
    IF z >= 0 THEN TermAt(z)
    ELSE TermAdd(TermConst(1), TermScale(-1, TermAt(-z)))

(* log(1 + exp(-z)): for z < 0 computed as -z + log(1 + exp(z))              *)
logistic_loss(z) ==
    IF z >= 0 THEN TermAt(z)
    ELSE TermAdd(TermConst(-z), TermAt(-z))

(* u = xi_0 + X.dot(xi), one entry per subject                               *)
LinearPredictor(X, r) == [i \in 1..Len(X) |-> r.xi_0 + Dot(X[i], r.xi)]

(* EtaDen * the gradient of the elastic-net penalty                          *)
_grad_elastic_net_pen(xi, n, l_elastic_net, eta) ==
    [j \in 1..(2 * n) |->
        l_elastic_net * (EtaDen - eta)
        + (IF j <= n THEN l_elastic_net * eta * xi[j]
           ELSE -(l_elastic_net * eta * xi[j - n]))]

(* _grad_P: entry j of the result is the sum of two addends, kept apart:     *)
(* data, PiDen * n_samples * the gradient of the data term, and pen,         *)
(* EtaDen * the gradient of the penalty.                                     *)
_grad_P(X, pi_est, xi_ext, fit_intercept, n, l_elastic_net, eta) ==
    LET r == _get_xi_from_xi_ext(xi_ext, fit_intercept, n)
        gp == _grad_elastic_net_pen(r.xi, n, l_elastic_net, eta)
        u == LinearPredictor(X, r)
        X1 == IF fit_intercept THEN [i \in 1..Len(X) |-> <<1>> \o X[i]] ELSE X
        grad_pen == IF fit_intercept
                    THEN <<0>> \o SubSeq(gp, 1, n) \o <<0>> \o SubSeq(gp, n + 1, 2 * n)
                    ELSE gp
        d == Len(X1[1])
        grad == [j \in 1..d |->
                    TermSum([i \in 1..Len(X1) |->
                        TermScale(X1[i][j],
                                  TermAdd(TermConst(pi_est[i]),
                                          TermScale(-PiDen, logistic_grad(-u[i]))))])]
        grad_sub_obj == grad \o [j \in 1..d |-> TermScale(-1, grad[j])]
    IN  [j \in 1..(2 * d) |-> [data |-> grad_sub_obj[j], pen |-> grad_pen[j]]]

---------------------------------------------------------------------------
(* The signed decomposition and the penalty functions of QNMCEM applied to   *)
(* drawn arguments.  The functions keep no state: a behaviour is one call.   *)

(* a coefficient vector w decomposed on its positive and negative parts      *)
SignedParts(w) ==
    [i \in 1..Len(w) |-> IF w[i] > 0 THEN w[i] ELSE 0]
    \o [i \in 1..Len(w) |-> IF w[i] < 0 THEN -w[i] ELSE 0]

(* time-independent features of one or two subjects, n columns               *)
Designs(n) == {<<[j \in 1..n |-> 1]>>,
               <<[j \in 1..n |-> 1], [j \in 1..n |-> IF j = 1 THEN -1 ELSE 0]>>}

(* posterior probabilities: all 0, all 1, all 1 / PiDen                      *)
PiEsts(k) == {[i \in 1..k |-> 0], [i \in 1..k |-> PiDen], [i \in 1..k |-> 1]}

XiExts(fit_intercept, n) ==
    Vectors(2 * (IF fit_intercept THEN n + 1 ELSE n), 0, MaxCoef)

EvalGetXi(w, fi, n) ==
    /\ call' = <<[who |-> "_get_xi_from_xi_ext", w |-> w,
                  xi_ext |-> SignedParts(w), fit_intercept |-> fi, n |-> n,
                  value |-> _get_xi_from_xi_ext(SignedParts(w), fi, n)]>>
    /\ UNCHANGED <<pen, pen_last, en_call, fitVars>>

(* the penalty at xi_ext, and at xi_ext with its two intercept entries       *)
(* replaced by a and b                                                       *)
EvalPenIntercept(xi_ext, n, l, eta, a, b) ==
    /\ LET moved == [xi_ext EXCEPT ![1] = a, ![n + 2] = b]
       IN  call' = <<[who |-> "_elastic_net_pen", xi_ext |-> xi_ext,
                      moved |-> moved, fit_intercept |-> TRUE, n |-> n,
                      l |-> l, eta |-> eta,
                      value |-> _elastic_net_pen(xi_ext, TRUE, n, l, eta),
                      value_moved |-> _elastic_net_pen(moved, TRUE, n, l, eta)]>>
    /\ UNCHANGED <<pen, pen_last, en_call, fitVars>>

EvalGradP(X, pi_est, xi_ext, fi, n, l, eta) ==
    /\ call' = <<[who |-> "_grad_P", X |-> X, pi_est |-> pi_est,
                  xi_ext |-> xi_ext, fit_intercept |-> fi, n |-> n,
                  l |-> l, eta |-> eta,
                  value |-> _grad_P(X, pi_est, xi_ext, fi, n, l, eta)]>>
    /\ UNCHANGED <<pen, pen_last, en_call, fitVars>>

(* Idle: no call made yet.                                                   *)
Idle == call = <<>>

NextXi ==
    \/ /\ Idle
       /\ \E fi \in BOOLEAN, n \in 1..MaxFeatures :
            \E w \in Vectors(IF fi THEN n + 1 ELSE n, -MaxCoef, MaxCoef) :
               EvalGetXi(w, fi, n)
    \/ /\ Idle
       /\ \E n \in 1..MaxFeatures, l \in 0..MaxLPen, eta \in 0..EtaDen,
             a \in 0..MaxCoef, b \in 0..MaxCoef :
            \E xi_ext \in XiExts(TRUE, n) :
               EvalPenIntercept(xi_ext, n, l, eta, a, b)
    \/ /\ Idle
       /\ \E fi \in BOOLEAN, n \in 1..MaxFeatures, l \in 0..MaxLPen,
             eta \in 0..EtaDen :
            \E xi_ext \in XiExts(fi, n), X \in Designs(n) :
               \E pi_est \in PiEsts(Len(X)) :
                  EvalGradP(X, pi_est, xi_ext, fi, n, l, eta)

SpecXi == InitPenalties /\ [][NextXi]_vars

---------------------------------------------------------------------------
(* The P sub-objective: QNMCEM._P_func and MstepFunctions.P_pen_func.  A     *)
(* value is the sum of two addends kept apart: data, PiDen * n_samples * the *)
(* mean over the subjects, and pen, PenScale * the penalty.                  *)
_P_func(X, pi_est, xi_ext, fit_intercept, n, l_elastic_net, eta) ==
    LET r == _get_xi_from_xi_ext(xi_ext, fit_intercept, n)
        pen_ == _elastic_net_pen(xi_ext, fit_intercept, n, l_elastic_net, eta)
        u == LinearPredictor(X, r)
        sub_obj == TermSum([i \in 1..Len(X) |->
                      TermAdd(TermConst(pi_est[i] * u[i]),
                              TermScale(PiDen, logistic_loss(u[i])))])
    IN  [data |-> sub_obj, pen |-> pen_]

(* A call of Penalties: Python binds the positional arguments to             *)
(* fit_intercept, l_pen, eta_elastic_net, eta_sp_gp_l1 and raises TypeError  *)
(* when one of them is missing.                                              *)
Penalties_call(args) ==
    IF Len(args) # 4 THEN [raised |-> TRUE, obj |-> <<>>]
    ELSE Penalties_init(args[1], args[2], args[3], args[4])

(* MstepFunctions.__init__: line 59 is Penalties(l_pen, eta_elastic_net,     *)
(* eta_sp_gp_l1)                                                             *)
MstepFunctions_init(fit_intercept, X, l_pen, eta_elastic_net, eta_sp_gp_l1) ==
    LET p == Penalties_call(<<l_pen, eta_elastic_net, eta_sp_gp_l1>>)
    IN  IF p.raised THEN [raised |-> TRUE, obj |-> <<>>]
        ELSE [raised |-> FALSE,
              obj |-> [fit_intercept |-> fit_intercept, X |-> X, pen |-> p.obj]]

(* lights.base.base.logistic_loss is taken to be QNMCEM.logistic_loss        *)
P_func(self, pi_est, xi_ext) ==
    LET u == LinearPredictor(self.X, get_xi_from_xi_ext(xi_ext, self.fit_intercept))
    IN  TermSum([i \in 1..Len(self.X) |->
                    TermScale(pi_est[i], logistic_loss(u[i]))])

(* line 81 gives xi, not xi_ext, to Penalties.elastic_net                    *)
P_pen_func(self, pi_est, xi_ext) ==
    LET xi == get_xi_from_xi_ext(xi_ext, self.fit_intercept).xi
    IN  [data |-> P_func(self, pi_est, xi_ext), pen |-> elastic_net(self.pen, xi)]

EvalPFunc(X, pi_est, xi_ext, fi, n, l, eta) ==
    /\ call' = <<[who |-> "_P_func", X |-> X, pi_est |-> pi_est,
                  xi_ext |-> xi_ext, fit_intercept |-> fi, l |-> l, eta |-> eta,
                  outcome |-> "returned",
                  value |-> <<_P_func(X, pi_est, xi_ext, fi, n, l, eta)>>]>>
    /\ UNCHANGED <<pen, pen_last, en_call, fitVars>>

(* MstepFunctions(...).P_pen_func(pi_est, xi_ext)                            *)
EvalMstepPPen(X, pi_est, xi_ext, fi, l, eta) ==
    /\ LET m == MstepFunctions_init(fi, X, Num(l, 1), Num(eta, EtaDen),
                                    Num(0, EtaDen))
       IN  call' = <<[who |-> "P_pen_func", X |-> X, pi_est |-> pi_est,
                      xi_ext |-> xi_ext, fit_intercept |-> fi, l |-> l,
                      eta |-> eta,
                      outcome |-> IF m.raised THEN "TypeError" ELSE "returned",
                      value |-> IF m.raised THEN <<>>
                                ELSE <<P_pen_func(m.obj, pi_est, xi_ext)>>]>>
    /\ UNCHANGED <<pen, pen_last, en_call, fitVars>>

NextP ==
    \/ /\ Idle
       /\ \E fi \in BOOLEAN, n \in 1..MaxFeatures, l \in 0..MaxLPen,
             eta \in 0..EtaDen :
            \E xi_ext \in XiExts(fi, n), X \in Designs(n) :
               \E pi_est \in PiEsts(Len(X)) :
                  EvalPFunc(X, pi_est, xi_ext, fi, n, l, eta)
    \/ /\ Idle
       /\ \E fi \in BOOLEAN, n \in 1..MaxFeatures, l \in 0..MaxLPen,
             eta \in 0..EtaDen :
            \E xi_ext \in XiExts(fi, n), X \in Designs(n) :
               \E pi_est \in PiEsts(Len(X)) :
                  EvalMstepPPen(X, pi_est, xi_ext, fi, l, eta)

SpecP == InitPenalties /\ [][NextP]_vars

---------------------------------------------------------------------------
(* The sparse-group-L1 penalty of Penalties and its gradient.                *)
(*                                                                           *)
(* np.linalg.norm(v) is the square root of the integer SqNorm(v).  A sum of  *)
(* square roots is kept in normal form: k = c * c * r with r squarefree      *)
(* gives sqrt(k) = c * sqrt(r), and the record [rat, irr] stands for         *)
(* rat + sum over r in 2..RMax of irr[r] * sqrt(r).  Two such sums are equal *)
(* as reals exactly if their records are equal.                              *)
MaxGroups == 2
MaxGroupSize == 2

RMax == MaxGroups * MaxGroupSize * MaxCoef * MaxCoef

(* the largest c with c * c dividing k                                       *)
SquarePart(k) ==
    IF k = 0 THEN 0
    ELSE CHOOSE c \in 1..k :
            /\ k % (c * c) = 0
            /\ \A e \in (c + 1)..k : k % (e * e) # 0

(* coef * sqrt(k)                                                            *)
Surd(coef, k) ==
    LET c == SquarePart(k)
        r == IF k = 0 THEN 1 ELSE k \div (c * c)
    IN  [rat |-> IF r = 1 THEN coef * c ELSE 0,
         irr |-> [q \in 2..RMax |-> IF q = r THEN coef * c ELSE 0]]

SurdAdd(x, y) ==
    [rat |-> x.rat + y.rat, irr |-> [q \in 2..RMax |-> x.irr[q] + y.irr[q]]]

(* lights.base.base: the vector of which v_ext holds the positive and the    *)
(* negative part                                                             *)
get_vect_from_ext(v_ext) ==
    LET d == Len(v_ext) \div 2
    IN  VecSub(SubSeq(v_ext, 1, d), SubSeq(v_ext, d + 1, 2 * d))

(* EtaDen * l_pen * ((1 - eta) * v_ext.sum() + eta * np.linalg.norm(v))      *)
sparse_group_l1(obj, v_ext) ==
    LET l_pen == obj.l_pen.num
        eta == obj.eta_sp_gp_l1.num
        v == get_vect_from_ext(v_ext)
    IN  SurdAdd(Surd(l_pen * (EtaDen - eta) * Sum(v_ext), 1),
                Surd(l_pen * eta, SqNorm(v)))

(* np.array_split(v, n_long_features)[g - 1] for len(v) a multiple of        *)
(* n_long_features                                                           *)
Group(v, n_long_features, g) ==
    LET size == Len(v) \div n_long_features
    IN  SubSeq(v, (g - 1) * size + 1, g * size)

(* An entry of the gradient: [k, rat, num, rad] with k = "num" stands for    *)
(* (rat + num / sqrt(rad)) / EtaDen; k = "nan" is the NaN of 0 / 0.          *)
GradEntry(rat, num, rad) ==
    IF rad = 0 THEN [k |-> "nan", rat |-> 0, num |-> 0, rad |-> 0]
    ELSE [k |-> "num", rat |-> rat, num |-> num, rad |-> rad]

(* tmp[j] is the norm of the group of entry j; grad_pos = l_pen * eta * v /  *)
(* tmp is a float division, and x + NaN is NaN.                              *)
grad_sparse_group_l1(obj, v, n_long_features) ==
    LET l_pen == obj.l_pen.num
        eta == obj.eta_sp_gp_l1.num
        dim == Len(v)
        size == dim \div n_long_features
        tmp == [j \in 1..dim |->
                   SqNorm(Group(v, n_long_features, (j - 1) \div size + 1))]
    IN  [j \in 1..(2 * dim) |->
            IF j <= dim
            THEN GradEntry(l_pen * (EtaDen - eta), l_pen * eta * v[j], tmp[j])
            ELSE GradEntry(l_pen * (EtaDen - eta), -(l_pen * eta * v[j - dim]),
                           tmp[j - dim])]

(* a Penalties object with the given l_pen and eta_sp_gp_l1                  *)
PenaltiesWith(l, eta) ==
    Penalties_init(FALSE, Num(l, 1), Num(0, EtaDen), Num(eta, EtaDen)).obj

(* L is the number of longitudinal features of the caller                    *)
EvalSparseGroupL1(v_ext, L, l, eta) ==
    /\ call' = <<[who |-> "sparse_group_l1", v_ext |-> v_ext, L |-> L,
                  l |-> l, eta |-> eta,
                  value |-> sparse_group_l1(PenaltiesWith(l, eta), v_ext)]>>
    /\ UNCHANGED <<pen, pen_last, en_call, fitVars>>

EvalGradSparseGroupL1(v, L, l, eta) ==
    /\ call' = <<[who |-> "grad_sparse_group_l1", v |-> v, L |-> L,
                  l |-> l, eta |-> eta,
                  value |-> grad_sparse_group_l1(PenaltiesWith(l, eta), v, L)]>>
    /\ UNCHANGED <<pen, pen_last, en_call, fitVars>>

NextSG ==
    \/ /\ Idle
       /\ \E L \in 1..MaxGroups, size \in 1..MaxGroupSize, l \in 0..MaxLPen,
             eta \in 0..EtaDen :
            \E v_ext \in Vectors(2 * L * size, 0, MaxCoef) :
               EvalSparseGroupL1(v_ext, L, l, eta)
    \/ /\ Idle
       /\ \E L \in 1..MaxGroups, size \in 1..MaxGroupSize, l \in 0..MaxLPen,
             eta \in 0..EtaDen :
            \E v \in Vectors(L * size, -MaxCoef, MaxCoef) :
               EvalGradSparseGroupL1(v, L, l, eta)

SpecSG == InitPenalties /\ [][NextSG]_vars

---------------------------------------------------------------------------
(* The association functions (associations.py).                              *)
(*                                                                           *)
(* T is the vector of the distinct event times, S the matrix of the 2N       *)
(* Monte Carlo draws (one row per draw, r_l columns per longitudinal         *)
(* feature) and fixed_effect_coeffs the two column vectors beta_0, beta_1    *)
(* (ulmm.py, line 80), each a sequence of q_l * n_long_features entries.     *)
(* An array is a sequence of sequences, outermost axis first.  The time      *)
(* integrals have the denominators 2..q_l: iU_l, iV_l and the "ce" and       *)
(* "d_ce" arrays are stored multiplied by IntScale(q_l).  The order of the   *)
(* fixed effect is at least 1: the random-effect design (1, t) is part of    *)
(* the fixed-effect design (ulmm.py, line 54).                               *)
MaxTimes == 2
MaxT == 2
MaxN == 1
MaxLong == 2
MaxOrder == 2

r_l == 2

RECURSIVE Pow(_, _)
Pow(a, b) == IF b = 0 THEN 1 ELSE a * Pow(a, b - 1)

RECURSIVE IntScale(_)
IntScale(q_l) == IF q_l <= 1 THEN 1 ELSE q_l * IntScale(q_l - 1)

(* np.c_[M, col]                                                             *)
AppendColumn(M, col) == [i \in 1..Len(M) |-> Append(M[i], col[i])]

(* "for t in range(1, self.q_l)" from t on                                   *)
RECURSIVE DesignLoop(_, _, _, _)
DesignLoop(st, T, t, q_l) ==
    IF t >= q_l THEN st
    ELSE DesignLoop(
           [U_l |-> AppendColumn(st.U_l, [i \in 1..Len(T) |-> Pow(T[i], t)]),
            iU_l |-> AppendColumn(st.iU_l,
                        [i \in 1..Len(T) |->
                            Pow(T[i], t + 1) * (IntScale(q_l) \div (t + 1))]),
            dU_l |-> AppendColumn(st.dU_l,
                        [i \in 1..Len(T) |-> t * Pow(T[i], t - 1)])],
           T, t + 1, q_l)

(* the same fixed-effect coefficients for both groups: what                  *)
(* _linear_association is not                                                *)
SameBetaBothGroups(self, U, V) ==
    [i \in 1..self.n_samples |-> [k \in 1..2 |->
        [l \in 1..self.n_long_features |-> [m \in 1..(2 * self.N) |->
            Dot(U[i], SubSeq(self.fixed_effect_coeffs[1],
                             self.q_l * (l - 1) + 1, self.q_l * l))
            + Dot(V[i], SubSeq(self.S[m], r_l * (l - 1) + 1, r_l * l))]]]]

(* phi[i, k, l, m] = U[i] . beta_kl + V[i] . S[m, r_l * l : r_l * (l + 1)]   *)
_linear_association(self, U, V) ==
    [i \in 1..self.n_samples |-> [k \in 1..2 |->
        [l \in 1..self.n_long_features |-> [m \in 1..(2 * self.N) |->
            Dot(U[i], SubSeq(self.fixed_effect_coeffs[k],
                             self.q_l * (l - 1) + 1, self.q_l * l))
            + Dot(V[i], SubSeq(self.S[m], r_l * (l - 1) + 1, r_l * l))]]]]

linear_predictor(self) == _linear_association(self, self.U_l, self.V_l)

time_dependent_slope(self) == _linear_association(self, self.dU_l, self.dV_l)

cumulative_effects(self) == _linear_association(self, self.iU_l, self.iV_l)

(* S.T: one row per column of S                                              *)
Transpose(S) == [c \in 1..Len(S[1]) |-> [m \in 1..Len(S) |-> S[m][c]]]

(* the draws at the first time only: what random_effects is not              *)
FirstTimeOnly(self) ==
    [i \in 1..self.n_samples |-> [k \in 1..2 |->
        [c \in 1..Len(self.S[1]) |-> [m \in 1..Len(self.S) |->
            IF i = 1 THEN self.S[m][c] ELSE 0]]]]

(* np.broadcast_to(S.T, (n_samples, 2, r_l * n_long_features, 2 * N)), for   *)
(* an S of r_l * n_long_features columns                                     *)
random_effects(self) ==
    [i \in 1..self.n_samples |-> [k \in 1..2 |-> Transpose(self.S)]]

derivative_random_effects(self) ==
    [k \in 1..2 |-> [m \in 1..(2 * self.N) |-> [i \in 1..self.n_samples |->
        [l \in 1..self.n_long_features |-> Zeros(self.q_l)]]]]

(* the first row of val at every time: what _get_derivative is not           *)
FirstRowEverywhere(self, val) ==
    [k \in 1..2 |-> [m \in 1..(2 * self.N) |-> [i \in 1..Len(val) |->
        [l \in 1..self.n_long_features |-> val[1]]]]]

(* val broadcast over the features, then over the groups and the draws       *)
_get_derivative(self, val) ==
    [k \in 1..2 |-> [m \in 1..(2 * self.N) |-> [i \in 1..Len(val) |->
        [l \in 1..self.n_long_features |-> val[i]]]]]

derivative_linear_predictor(self) == _get_derivative(self, self.U_l)

derivative_time_dependent_slope(self) == _get_derivative(self, self.dU_l)

derivative_cumulative_effects(self) == _get_derivative(self, self.iU_l)

(* AssociationFunctions.__init__: the instance, with its assoc_func_dict     *)
AssociationFunctions(T, S, fixed_effect_coeffs, fixed_effect_time_order, n_long_features) ==
    LET n_samples == Len(T)
        q_l == fixed_effect_time_order + 1
        d == DesignLoop([U_l |-> [i \in 1..n_samples |-> <<1>>],
                         iU_l |-> [i \in 1..n_samples |-> <<T[i] * IntScale(q_l)>>],
                         dU_l |-> [i \in 1..n_samples |-> <<0>>]], T, 1, q_l)
        self == [S |-> S, fixed_effect_coeffs |-> fixed_effect_coeffs,
                 n_long_features |-> n_long_features, n_samples |-> n_samples,
                 N |-> Len(S) \div 2, q_l |-> q_l,
                 U_l |-> d.U_l, iU_l |-> d.iU_l, dU_l |-> d.dU_l,
                 V_l |-> [i \in 1..n_samples |-> <<1, T[i]>>],
                 iV_l |-> [i \in 1..n_samples |->
                             <<T[i] * IntScale(q_l),
                               Pow(T[i], 2) * (IntScale(q_l) \div 2)>>],
                 dV_l |-> [i \in 1..n_samples |-> <<0, 1>>]]
    IN  [self |-> self,
         assoc_func_dict |->
            [lp |-> linear_predictor(self),
             re |-> random_effects(self),
             tps |-> time_dependent_slope(self),
             ce |-> cumulative_effects(self),
             d_lp |-> derivative_linear_predictor(self),
             d_re |-> derivative_random_effects(self),
             d_tps |-> derivative_time_dependent_slope(self),
             d_ce |-> derivative_cumulative_effects(self)]]

(* n distinct times in increasing order                                      *)
Times(n) == {[i \in 1..n |-> t0 + i - 1] : t0 \in 0..MaxT}

(* draws: all zero, or a different value at every position, with either sign *)
Draws(N, L) ==
    {[m \in 1..(2 * N) |-> [c \in 1..(r_l * L) |-> sg * ((m - 1) * r_l * L + c)]] :
        sg \in {-1, 0, 1}}

(* fixed-effect coefficients of the two groups, likewise                     *)
Coeffs(q) == {[k \in 1..2 |-> [j \in 1..q |-> sg * ((k - 1) * q + j)]] :
                 sg \in {-1, 0, 1}}

AssoConstruct(T, S, beta, order, L) ==
    /\ LET a == AssociationFunctions(T, S, beta, order, L)
       IN  call' = <<[who |-> "AssociationFunctions", T |-> T, S |-> S,
                      beta |-> beta, order |-> order, L |-> L,
                      assoc_func_dict |-> a.assoc_func_dict]>>
    /\ UNCHANGED <<pen, pen_last, en_call, fitVars>>

NextAsso ==
    /\ Idle
    /\ \E n \in 1..MaxTimes, N \in 1..MaxN, L \in 1..MaxLong, order \in 1..MaxOrder :
         \E T \in Times(n), S \in Draws(N, L), beta \in Coeffs((order + 1) * L) :
            AssoConstruct(T, S, beta, order, L)

SpecAsso == InitPenalties /\ [][NextAsso]_vars

---------------------------------------------------------------------------
(* get_asso_func (associations.py): the stack of the requested association   *)
(* functions.                                                                *)
(*                                                                           *)
(* asso_functions is a Python list of names, [list |-> names], or a Python   *)
(* string, [str |-> characters]; a for loop over a string runs over its      *)
(* characters.                                                               *)
Iterate(asso_functions) ==
    IF "str" \in DOMAIN asso_functions THEN asso_functions.str
    ELSE asso_functions.list

(* v[lo:hi] of Python: cut at the end of v                                   *)
Slice(v, lo, hi) ==
    SubSeq(v, lo + 1, IF hi <= Len(v) THEN hi ELSE Len(v))

(* U.dot(beta_kl) of _linear_association: ValueError unless the slice has    *)
(* q_l entries                                                               *)
DotRaises(fixed_effect_coeffs, q_l, n_long_features) ==
    \E k \in 1..2, l \in 0..(n_long_features - 1) :
        Len(Slice(fixed_effect_coeffs[k], q_l * l, q_l * (l + 1))) # q_l

(* all the entries of an array of d axes, last axis running fastest          *)
RECURSIVE Ravel(_, _)
Ravel(a, d) ==
    IF d = 1 THEN a
    ELSE IF a = <<>> THEN <<>>
    ELSE Ravel(Head(a), d - 1) \o Ravel(Tail(a), d)

Reshape3(flat, d0, d1, d2) ==
    [x \in 1..d0 |-> [y \in 1..d1 |-> [z \in 1..d2 |->
        flat[((x - 1) * d1 + (y - 1)) * d2 + z]]]]

Reshape5(flat, d0, d1, d2, d3, d4) ==
    [x \in 1..d0 |-> [y \in 1..d1 |-> [z \in 1..d2 |-> [u \in 1..d3 |->
        [v \in 1..d4 |->
            flat[((((x - 1) * d1 + (y - 1)) * d2 + (z - 1)) * d3 + (u - 1)) * d4 + v]]]]]]

(* the first two axes exchanged only: what func.swapaxes(0, 1).swapaxes(2, 3) *)
(* is not                                                                    *)
SwapFirstOnly(func) ==
    [k \in 1..Len(func[1]) |-> [j \in 1..Len(func) |-> func[j][k]]]

(* func.swapaxes(0, 1).swapaxes(2, 3)                                        *)
SwapAxes(func) ==
    [k \in 1..Len(func[1]) |-> [j \in 1..Len(func) |->
        [m \in 1..Len(func[1][1][1]) |-> [c \in 1..Len(func[1][1]) |->
            func[j][k][c][m]]]]]

(* "for func_name in asso_functions" from the position at on                 *)
RECURSIVE StackLoop(_, _, _, _, _, _)
StackLoop(assoc_func_dict, names, at, asso_func_stack, derivative, shape) ==
    IF at > Len(names)
    THEN [outcome |-> "returned", stack |-> asso_func_stack]
    ELSE
      LET func_name == names[at]
          key == IF derivative THEN "d_" \o func_name ELSE func_name
      IN  IF key \notin DOMAIN assoc_func_dict
          THEN [outcome |-> "KeyError", stack |-> <<>>]
          ELSE
            LET func == assoc_func_dict[key]
                dim == IF func_name = "re" THEN 2 * shape.L ELSE shape.L
                joined ==
                  IF derivative
                  THEN LET func_r == Reshape5(Ravel(func, 5), 2, 2 * shape.N,
                                              shape.J, shape.L, shape.q_l)
                       IN  [k \in 1..2 |-> [m \in 1..(2 * shape.N) |->
                              [j \in 1..shape.J |-> [l \in 1..shape.L |->
                                 asso_func_stack[k][m][j][l] \o func_r[k][m][j][l]]]]]
                  ELSE LET func_r == Reshape3(Ravel(SwapAxes(func), 4), 2,
                                              shape.J * 2 * shape.N, dim)
                       IN  [k \in 1..2 |-> [r \in 1..(shape.J * 2 * shape.N) |->
                              asso_func_stack[k][r] \o func_r[k][r]]]
            IN  StackLoop(assoc_func_dict, names, at + 1, joined, derivative, shape)

get_asso_func(T_u, S, theta, asso_functions, n_long_features, fixed_effect_time_order, derivative) ==
    LET fixed_effect_coeffs == <<theta.beta_0, theta.beta_1>>
        J == Len(T_u)
        q_l == fixed_effect_time_order + 1
        N == Len(S) \div 2
        shape == [J |-> J, N |-> N, L |-> n_long_features, q_l |-> q_l]
    IN  IF DotRaises(fixed_effect_coeffs, q_l, n_long_features)
        THEN [outcome |-> "ValueError", stack |-> <<>>]
        ELSE StackLoop(
               AssociationFunctions(T_u, S, fixed_effect_coeffs,
                                    fixed_effect_time_order,
                                    n_long_features).assoc_func_dict,
               Iterate(asso_functions), 1,
               IF derivative
               THEN [k \in 1..2 |-> [m \in 1..(2 * N) |-> [j \in 1..J |->
                       [l \in 1..n_long_features |-> <<>>]]]]
               ELSE [k \in 1..2 |-> [r \in 1..(J * 2 * N) |-> <<>>]],
               derivative, shape)

AllNames == <<"lp", "re", "tps", "ce">>

(* requests: lists of names in several orders, and the string 'all'          *)
Requests ==
    {[list |-> <<"lp">>], [list |-> <<"re", "lp">>], [list |-> <<"ce", "re", "tps">>],
     [list |-> AllNames], [str |-> <<"a", "l", "l">>]}

(* theta with coefficient vectors of q entries                               *)
Thetas(q) == {[beta_0 |-> [j \in 1..q |-> j], beta_1 |-> [j \in 1..q |-> -(q + j)]]}

GetAssoFunc(T_u, S, theta, asso_functions, L, order, derivative) ==
    /\ LET r == get_asso_func(T_u, S, theta, asso_functions, L, order, derivative)
       IN  call' = <<[who |-> "get_asso_func", T_u |-> T_u, S |-> S,
                      theta |-> theta, asso_functions |-> asso_functions,
                      L |-> L, order |-> order, derivative |-> derivative,
                      outcome |-> r.outcome, stack |-> r.stack]>>
    /\ UNCHANGED <<pen, pen_last, en_call, fitVars>>

NextStack ==
    /\ Idle
    /\ \E n \in 1..MaxTimes, N \in 1..MaxN, L \in 1..MaxLong, order \in 1..MaxOrder :
         \E T_u \in Times(n), S \in Draws(N, L), e \in {-1, 0, 1},
            asso_functions \in Requests, derivative \in BOOLEAN :
            \E theta \in Thetas((order + 1) * L + e) :
               GetAssoFunc(T_u, S, theta, asso_functions, L, order, derivative)

SpecStack == InitPenalties /\ [][NextStack]_vars

---------------------------------------------------------------------------
(* Cross-validation: QNMCEM.cross_validate (inference.py) and cross_validate *)
(* (cross_val.py).                                                           *)
(*                                                                           *)
(* The four data arrays are known by their names and row indices only:       *)
(* Rows(name, idx) is name[idx].  A grid is a sequence of values; the        *)
(* adaptive grid np.logspace(gamma_max - 4, gamma_max, grid_size) is         *)
(* increasing and is written by the ranks 1..grid_size of its values.        *)
MaxFolds == 3
MaxSamples == 4
MaxGrid == 2

Rows(name, idx) == [of |-> name, rows |-> idx]

(* KFold(n_splits, shuffle).split(X): the test rows of the first fold, a     *)
(* block of n_samples // n_folds rows (one more when the division has a      *)
(* remainder), the first ones unless the rows are shuffled                   *)
FirstTestRows(n_samples, n_folds, shuffle) ==
    LET size == (n_samples \div n_folds)
                  + (IF n_samples % n_folds > 0 THEN 1 ELSE 0)
    IN  IF shuffle
        THEN {t \in SUBSET (0..(n_samples - 1)) : Cardinality(t) = size}
        ELSE {0..(size - 1)}

(* learner.fit(...) and learner.score(...): the call binds its arguments to  *)
(* the parameters of the method, TypeError when one has no value             *)
MethodCall(parameters, args) ==
    IF Len(args) # Len(parameters) THEN "TypeError" ELSE "entered"

(* lines 812 to 818: avg_scores, std_scores, idx_best, idx_chosen.  With     *)
(* n folds and the fold scores summing to tot, avg >= avg.max() - std[best]  *)
(* reads (tot[best] - tot[i])^2 <= n * sum(scores[best]^2) - tot[best]^2.    *)
Selection(grid, scores) ==
    IF scores = <<>>
    THEN \* argmax of an empty array
         [outcome |-> "ValueError", best |-> <<>>, chosen |-> <<>>]
    ELSE
      LET n == Len(scores[1])
          tot == [i \in 1..Len(scores) |-> Sum(scores[i])]
          idx_best == CHOOSE i \in 1..Len(scores) :
                         /\ \A j \in 1..Len(scores) : tot[j] <= tot[i]
                         /\ \A j \in 1..(i - 1) : tot[j] < tot[i]
          within == {i \in 1..Len(scores) :
                        (tot[idx_best] - tot[i]) * (tot[idx_best] - tot[i])
                           <= n * SqNorm(scores[idx_best])
                                - tot[idx_best] * tot[idx_best]}
          idx_chosen == CHOOSE i \in within : \A j \in within : j <= i
      IN  [outcome |-> "returned", best |-> <<grid[idx_best]>>,
           chosen |-> <<grid[idx_chosen]>>]

(* the loops over the grid and the folds, lines 796 to 810 (cross_val.py,    *)
(* lines 82 to 97): the first fit() call ends them                           *)
GridLoop(grid, a, test, setting) ==
    IF grid = <<>>
    THEN [outcome |-> "ValueError", at |-> "argmax", fits |-> <<>>,
          scores |-> <<>>, selected |-> Selection(grid, <<>>)]
    ELSE IF a.n_samples < a.n_folds
    THEN [outcome |-> "ValueError", at |-> "split", fits |-> <<>>,
          scores |-> <<>>, selected |-> Selection(grid, <<>>)]
    ELSE
      LET idx_test == test
          idx_train == (0..(a.n_samples - 1)) \ test
          X_train == Rows("X", idx_train)
          X_test == Rows("X", idx_test)
          T_train == Rows("Y", idx_train)
          T_test == Rows("T", idx_test)
          delta_train == Rows("delta", idx_train)
          delta_test == Rows("delta", idx_test)
          fit_args == <<X_train, T_train, delta_train>>
          fitted == MethodCall(<<"X", "Y", "T", "delta">>, fit_args)
          score_args == <<X_test, T_test, delta_test, a.metric>>
      IN  [outcome |-> IF fitted = "TypeError" THEN "TypeError"
                       ELSE \* fit() itself: max_iter is the default, 100
                            "ZeroDivisionError",
           at |-> "fit",
           fits |-> <<[n_fold |-> 0, setting |-> setting, args |-> fit_args,
                       outcome |-> fitted]>>,
           scores |-> <<>>, selected |-> Selection(grid, <<>>)]

(* QNMCEM.cross_validate                                                     *)
QNMCEM_cross_validate(a, test) ==
    IF a.n_folds < 2
    THEN [outcome |-> "ValueError", at |-> "KFold", fits |-> <<>>,
          scores |-> <<>>, selected |-> Selection(<<>>, <<>>)]
    ELSE IF a.adaptative_grid_el /\ a.eta = EtaDen
    THEN \* 1. / (1. - eta)
         [outcome |-> "ZeroDivisionError", at |-> "gamma_max", fits |-> <<>>,
          scores |-> <<>>, selected |-> Selection(<<>>, <<>>)]
    ELSE LET grid_elastic_net ==
                 IF a.adaptative_grid_el THEN [i \in 1..a.grid_size |-> i]
                 ELSE a.grid
         IN  GridLoop(grid_elastic_net, a, test,
                      IF grid_elastic_net = <<>> THEN <<>>
                      ELSE [l_elastic_net |-> grid_elastic_net[1]])

(* cross_validate of cross_val.py: the grid is grid_params, a list of        *)
(* triples, whether the grid is adaptive or not                              *)
cross_validate(a, test) ==
    IF a.n_folds < 2
    THEN [outcome |-> "ValueError", at |-> "KFold", fits |-> <<>>,
          scores |-> <<>>, selected |-> Selection(<<>>, <<>>)]
    ELSE IF a.adaptative_grid_el /\ a.eta = EtaDen
    THEN [outcome |-> "ZeroDivisionError", at |-> "gamma_max", fits |-> <<>>,
          scores |-> <<>>, selected |-> Selection(<<>>, <<>>)]
    ELSE LET grid_params == [i \in 1..Len(a.grid) |-> <<a.grid[i], 0, 0>>]
         IN  GridLoop(grid_params, a, test,
                      IF grid_params = <<>> THEN <<>>
                      ELSE [l_pen_EN |-> grid_params[1][1]])

Grids == UNION {[1..k -> 0..MaxGrid] : k \in 0..MaxGrid}

CVArgs == [n_samples : 2..MaxSamples, n_folds : 1..MaxFolds, eta : 0..EtaDen,
           adaptative_grid_el : BOOLEAN, grid_size : 0..MaxGrid, grid : Grids,
           shuffle : BOOLEAN, metric : {"log_lik", "C-index"}]

CrossValidate(a, test) ==
    /\ LET r == QNMCEM_cross_validate(a, test)
       IN  call' = <<[who |-> "QNMCEM.cross_validate", a |-> a,
                      grid |-> IF a.adaptative_grid_el
                               THEN [i \in 1..a.grid_size |-> i] ELSE a.grid,
                      outcome |-> r.outcome, at |-> r.at, fits |-> r.fits,
                      scores |-> r.scores,
                      l_elastic_net_best |-> r.selected.best,
                      l_elastic_net_chosen |-> r.selected.chosen]>>
    /\ UNCHANGED <<pen, pen_last, en_call, fitVars>>

CrossValidateFunction(a, test) ==
    /\ LET r == cross_validate(a, test)
       IN  call' = <<[who |-> "cross_validate", a |-> a, grid |-> a.grid,
                      outcome |-> r.outcome, at |-> r.at, fits |-> r.fits,
                      scores |-> r.scores,
                      l_elastic_net_best |-> r.selected.best,
                      l_elastic_net_chosen |-> r.selected.chosen]>>
    /\ UNCHANGED <<pen, pen_last, en_call, fitVars>>

NextCV ==
    \/ /\ Idle
       /\ \E a \in CVArgs :
            \E test \in FirstTestRows(a.n_samples, (IF a.n_folds < 2 THEN 2 ELSE a.n_folds), a.shuffle) :
               CrossValidate(a, test)
    \/ /\ Idle
       /\ \E a \in CVArgs :
            \E test \in FirstTestRows(a.n_samples, (IF a.n_folds < 2 THEN 2 ELSE a.n_folds), a.shuffle) :
               CrossValidateFunction(a, test)

SpecCV == InitPenalties /\ [][NextCV]_vars

---------------------------------------------------------------------------
(* The verbose flag.  A run of fit() is followed once more with the lines it *)
(* prints: out is the sequence of the printed items.                         *)

(* the record is appended only when it is printed: what the pair "update,    *)
(* then print if verbose" is not                                             *)
UpdateWhenPrinting(r, verbose, rec) ==
    IF verbose
    THEN [hist |-> Append(r.hist, rec), out |-> Append(r.out, Append(r.hist, rec))]
    ELSE r

(* self.history.update(...) and "if verbose: self.history.print_history()"   *)
UpdateThenPrint(r, verbose, rec) ==
    LET h == HistoryUpdate(r.hist, rec.n_iter, rec.obj, rec.rel_obj)
    IN  [hist |-> h, out |-> IF verbose THEN Append(r.out, h) ELSE r.out]

(* the records of a run, from the record at on                               *)
RECURSIVE Replay(_, _, _, _)
Replay(r, verbose, records, at) ==
    IF at > Len(records) THEN r
    ELSE Replay(UpdateThenPrint(r, verbose, records[at]), verbose, records, at + 1)

(* _start_solve: the history cleared, one line printed if verbose            *)
Launched(verbose) ==
    [hist |-> HistoryClear,
     out |-> IF verbose THEN <<"Launching the solver">> ELSE <<>>]

(* QNMCEM.fit with its verbose flag, which it hands to its MLMM              *)
FitWithVerbose(c, n, slv, verbose) ==
    LET d == IF c.fit_intercept THEN n + 1 ELSE n
        own0 == Launched(verbose)
        m == MLMM_fit(c.max_iter, c.print_every)
        mrun == Replay(Launched(verbose), verbose, m.hist, 1)
    IN  IF m.outcome = "raised"
        THEN [outcome |-> "raised", history |-> own0.hist,
              mlmm_history |-> mrun.hist, self_xi_ext |-> Zeros(2 * d),
              xi_ext |-> Zeros(2 * d), out |-> own0.out \o mrun.out]
        ELSE
          LET st == QNMCEM_loop([i |-> 0, n_iter |-> 0, xi_ext |-> Zeros(2 * d),
                                 obj |-> _func_obj(Zeros(2 * d), c, n),
                                 rel_obj |-> Num(1, 1), hist |-> <<>>,
                                 appended |-> <<>>, iters |-> <<>>,
                                 stop |-> "cap"], c, n, slv, Zeros(2 * d))
              init_out == IF verbose THEN <<"Done solving", "init: beta_0, beta_1, D, phi">>
                          ELSE <<>>
              own == Replay([hist |-> own0.hist,
                             out |-> own0.out \o mrun.out \o init_out],
                            verbose,
                            Append(st.appended,
                                   [n_iter |-> st.n_iter + 1, obj |-> st.obj,
                                    rel_obj |-> st.rel_obj]), 1)
          IN  [outcome |-> "done", history |-> own.hist,
               mlmm_history |-> mrun.hist, self_xi_ext |-> Zeros(2 * d),
               xi_ext |-> st.xi_ext,
               out |-> IF verbose
                       THEN own.out \o <<"At the end: beta_0, beta_1, D, phi", "Done solving">>
                       ELSE own.out]

FitTwice(c, n, slv) ==
    /\ call' = <<[who |-> "fit", c |-> c, n |-> n, solver |-> slv,
                  quiet |-> FitWithVerbose(c, n, slv, FALSE),
                  loud |-> FitWithVerbose(c, n, slv, TRUE)]>>
    /\ UNCHANGED <<pen, pen_last, en_call, fitVars>>

NextVerbose ==
    /\ Idle
    /\ \E c \in Configs, n \in 1..MaxFeatures, slv \in Solvers : FitTwice(c, n, slv)

SpecVerbose == InitPenalties /\ [][NextVerbose]_vars

---------------------------------------------------------------------------
(* logistic_grad and logistic_loss on an array (inference.py, lines 299 to   *)
(* 320).  The entries of z are floats, Num(a, 1) or NaN; res starts as       *)
(* np.empty(z.shape), whose entries are whatever the memory holds.           *)

(* np.where(z >= 0.) and np.where(z < 0.): a comparison with NaN is False    *)
idx_pos(z) == {i \in 1..Len(z) : z[i].k = "num" /\ z[i].num >= 0}

idx_neg(z) == {i \in 1..Len(z) : z[i].k = "num" /\ z[i].num < 0}

(* res after the two assignments res[idx_pos] = ..., res[idx_neg] = ...      *)
AfterBranches(name, z, empty) ==
    [i \in 1..Len(z) |->
        IF i \in idx_pos(z) \cup idx_neg(z)
        THEN [k |-> "term",
              t |-> IF name = "logistic_grad" THEN logistic_grad(z[i].num)
                    ELSE logistic_loss(z[i].num)]
        ELSE empty[i]]

(* the arguments np.exp is evaluated on: -z[idx_pos], then z[idx_neg]        *)
ExpArguments(z) ==
    {-z[i].num : i \in idx_pos(z)} \cup {z[i].num : i \in idx_neg(z)}

Floats == {Num(a, 1) : a \in (-UMax)..UMax} \cup {NaN}

EvalLogistic(z, empty) ==
    /\ call' = <<[who |-> "logistic", z |-> z, empty |-> empty,
                  written_pos |-> idx_pos(z), written_neg |-> idx_neg(z),
                  exp_arguments |-> ExpArguments(z),
                  grad |-> AfterBranches("logistic_grad", z, empty),
                  loss |-> AfterBranches("logistic_loss", z, empty)]>>
    /\ UNCHANGED <<pen, pen_last, en_call, fitVars>>

NextLogistic ==
    /\ Idle
    /\ \E n \in 1..(MaxFeatures + 1) :
         \E z \in [1..n -> Floats], empty \in [1..n -> {Num(0, 1), Num(1, 1)}] :
            EvalLogistic(z, empty)

SpecLogistic == InitPenalties /\ [][NextLogistic]_vars

---------------------------------------------------------------------------
(* The layout of the gradients of MstepFunctions (m_step_functions.py).      *)
(* grad is the vector that a method has computed over the d coordinates of   *)
(* its parameter when it builds grad_sub_obj; the values returned by grad_R  *)
(* and grad_Q are written multiplied by n_samples.                           *)

(* np.concatenate([grad, -grad])                                             *)
ConcatSigned(grad) == grad \o [i \in 1..Len(grad) |-> -grad[i]]

(* np.vstack((grad, -grad)).T, flattened: row i of the transpose is          *)
(* (grad[i], -grad[i])                                                       *)
StackSigned(grad) ==
    Ravel([i \in 1..Len(grad) |-> <<grad[i], -grad[i]>>], 2)

(* the last lines of grad_P (136, 137), grad_R (256, 257), grad_Q (318, 319) *)
MstepGradient(method, grad) ==
    CASE method = "grad_P" -> ConcatSigned(grad)
      [] method = "grad_R" -> [j \in 1..(2 * Len(grad)) |-> -ConcatSigned(grad)[j]]
      [] method = "grad_Q" -> [j \in 1..(2 * Len(grad)) |-> -StackSigned(grad)[j]]

(* MstepFunctions(...).grad_P / grad_R / grad_Q                              *)
EvalMstepGrad(method, fi, X, grad) ==
    /\ LET m == MstepFunctions_init(fi, X, Num(0, 1), Num(0, EtaDen),
                                    Num(0, EtaDen))
       IN  call' = <<[who |-> "MstepFunctions.grad", method |-> method,
                      fit_intercept |-> fi, X |-> X, grad |-> grad,
                      outcome |-> IF m.raised THEN "TypeError" ELSE "returned",
                      value |-> IF m.raised THEN <<>>
                                ELSE MstepGradient(method, grad)]>>
    /\ UNCHANGED <<pen, pen_last, en_call, fitVars>>

NextGrad ==
    /\ Idle
    /\ \E method \in {"grad_P", "grad_R", "grad_Q"}, fi \in BOOLEAN,
          n \in 1..MaxFeatures, d \in 1..(MaxFeatures + 1) :
         \E X \in Designs(n), grad \in Vectors(d, -MaxCoef, MaxCoef) :
            EvalMstepGrad(method, fi, X, grad)

SpecGrad == InitPenalties /\ [][NextGrad]_vars

---------------------------------------------------------------------------
(* Claims about QNMCEM.fit, checked under Spec.                              *)

(* the last fit() call has returned ("done") or was left by an exception    *)
FitOver == pc \in {"done", "raised"}

LastRecord(h) == h[Len(h)]

(* C1: once a fit() call with max_iter >= 1 is over, self.xi_ext is the      *)
(* xi_ext returned by the last P-minimization of its loop.                   *)
C1_LastIterateStored ==
    (FitOver /\ cfg.max_iter >= 1) =>
        /\ iters # <<>>
        /\ self_xi_ext = <<iters[Len(iters)].xi_ext>>

(* C2: a fit() call with max_iter >= 2 that is over has run its iteration 0, *)
(* and in every iteration n >= 1 it ran, predict_proba read the xi_ext that  *)
(* the P-minimization of iteration n - 1 returned.                           *)
C2_PiFromPreviousMinimizer ==
    (FitOver /\ cfg.max_iter >= 2) =>
        /\ iters # <<>>
        /\ \A k \in 2..Len(iters) : iters[k].pi_from = iters[k - 1].xi_ext

(* C3: every fit() call ends by its stop rule: it ran at most max_iter       *)
(* iterations, none after an iteration whose rel_obj was below tol, and it   *)
(* stopped either right after such an iteration or with max_iter iterations  *)
(* run.                                                                      *)
C3_StopsOnTolOrCap ==
    FitOver =>
        /\ Len(iters) <= cfg.max_iter
        /\ \A k \in 1..(Len(iters) - 1) : ~LessTol(iters[k].rel_obj)
        /\ \/ Len(iters) = cfg.max_iter
           \/ iters # <<>> /\ LessTol(iters[Len(iters)].rel_obj)

(* C4: a fit() call with max_iter = 0 runs no EM iteration and the iteration *)
(* number of the record it leaves in the history is 0.                       *)
C4_MaxIterZeroReportsZero ==
    (pc = "done" /\ cfg.max_iter = 0) =>
        /\ iters = <<>>
        /\ history # <<>>
        /\ LastRecord(history).n_iter = 0

(* C5: the relative-objective check of the fit loops never divides by zero:  *)
(* no fit() call ends in ZeroDivisionError and every rel_obj of MLMM.fit and *)
(* of QNMCEM.fit is a finite number.                                         *)
C5_RelObjGuarded ==
    /\ pc # "raised"
    /\ Finite(loc.rel_obj)
    /\ \A k \in 1..Len(history) : Finite(history[k].rel_obj)
    /\ \A k \in 1..Len(mlmm_history) : Finite(mlmm_history[k].rel_obj)

(* C6: the history of the QNMCEM instance is exactly the sequence of records *)
(* that the most recent fit() call appended itself, in order: nothing of an  *)
(* earlier call and nothing written by the initializer.                      *)
C6_HistoryOfThisFitOnly == history = fit_log

C6_Witness ==
    /\ pc = "done"
    /\ prev_run # <<>>
    /\ prev_run[1].history # <<>>
    /\ mlmm_history # <<>>
    /\ Len(history) = 1

C8_WarmStartFromLastSolution ==
    (FitOver /\ cfg.max_iter >= 1) =>
        /\ iters # <<>>
        /\ (cfg.warm_start /\ prev_run # <<>>
              /\ Len(prev_run[1].xi_ext) = Len(iters[1].x0))
                => iters[1].x0 = prev_run[1].xi_ext
        /\ cfg.warm_start =>
                \A k \in 2..Len(iters) : iters[k].x0 = iters[k - 1].xi_ext
        /\ ~cfg.warm_start =>
                \A k \in 1..Len(iters) : iters[k].x0 = Zeros(Len(iters[k].x0))

---------------------------------------------------------------------------
(* Claims about the penalties, checked under SpecEN and SpecPen.             *)

RECURSIVE SetSum(_, _)
SetSum(S, f) ==
    IF S = {} THEN 0
    ELSE LET x == CHOOSE y \in S : TRUE IN f[x] + SetSum(S \ {x}, f)

(* the penalized coordinates of xi: all but the intercept                    *)
Penalized(c) ==
    {k \in 1..(Len(c.xi_ext) \div 2) : ~(c.fit_intercept /\ k = 1)}

L1Term(c) ==
    LET d == Len(c.xi_ext) \div 2
    IN  SetSum(Penalized(c), [k \in Penalized(c) |-> c.xi_ext[k] + c.xi_ext[k + d]])

SqL2Term(c) ==
    LET d == Len(c.xi_ext) \div 2
    IN  SetSum(Penalized(c),
               [k \in Penalized(c) |->
                  (c.xi_ext[k] - c.xi_ext[k + d]) * (c.xi_ext[k] - c.xi_ext[k + d])])

(* C9: with eta = 0 the elastic-net penalty is the ridge term alone,         *)
(* l * 0.5 * |xi|^2, and with eta = 1 the lasso term alone, l * sum(xi_ext), *)
(* for QNMCEM._elastic_net_pen and for Penalties.elastic_net.                *)
C9_EtaZeroRidgeEtaOneLasso ==
    en_call # <<>> =>
        LET c == en_call[1]
        IN  /\ c.eta = 0 => c.value = (PenScale \div 2) * c.l * SqL2Term(c)
            /\ c.eta = EtaDen => c.value = PenScale * c.l * L1Term(c)

InRange(field, val) ==
    /\ val.k = "num"
    /\ val.num >= 0
    /\ field # "l_pen" => val.num <= val.den

(* C10: the Penalties object holds only values in range (l_pen >= 0, both    *)
(* etas in [0, 1]); a construction or an assignment that gives a value not   *)
(* in its range raises and leaves what was stored, and one that gives only   *)
(* values in range, the boundary values 0 and 1 included, stores them.       *)
C10_PenaltiesRangeEnforced ==
    /\ pen # <<>> =>
          \A f \in {"l_pen", "eta_elastic_net", "eta_sp_gp_l1"} : InRange(f, pen[1][f])
    /\ pen_last # <<>> =>
          LET r == pen_last[1]
              ok == \A f \in DOMAIN r.given : InRange(f, r.given[f])
          IN  /\ ~ok => r.raised /\ pen = r.before
              /\ ok => /\ ~r.raised
                       /\ pen # <<>>
                       /\ \A f \in DOMAIN r.given : pen[1][f] = r.given[f]

C10_Witness ==
    /\ pen_last # <<>>
    /\ pen_last[1].op = "set"
    /\ pen_last[1].raised
    /\ pen = pen_last[1].before
    /\ pen[1].eta_elastic_net = Num(EtaDen, EtaDen)
    /\ pen[1].eta_sp_gp_l1 = Num(0, EtaDen)

---------------------------------------------------------------------------
(* Claims about the estimator's construction and score(), checked under      *)
(* SpecEstimator.                                                            *)

(* C11: a QNMCEM instance exists only with l_elastic_net >= 0 and eta in     *)
(* [0, 1]: a construction with a value out of range fails, so that no fit()  *)
(* runs with one.                                                            *)
C11_OutOfRangeRejectedAtConstruction ==
    pc # "none" =>
        /\ cfg.l_elastic_net >= 0
        /\ cfg.eta >= 0
        /\ cfg.eta <= EtaDen

(* C12: score() with a metric other than 'log_lik' and 'C-index' raises      *)
(* ValueError and leaves the estimator as it was; with 'log_lik' it returns  *)
(* the log-likelihood; with 'C-index' it returns the concordance index of a  *)
(* predicted marker, one score per subject.                                  *)
C12_ScoreByMetric ==
    (call # <<>> /\ call[1].who = "score") =>
        LET c == call[1]
        IN  /\ c.metric \notin {"log_lik", "C-index"} =>
                  c.outcome = "ValueError" /\ c.after = c.before
            /\ c.metric = "log_lik" =>
                  c.outcome = "returned" /\ c.value = Num(_log_lik, 1)
            /\ c.metric = "C-index" =>
                  /\ c.outcome = "returned"
                  /\ Finite(c.value)
                  /\ Len(c.marker) = Len(c.data.T)

---------------------------------------------------------------------------
(* Claims about the signed decomposition and the intercept, checked under    *)
(* SpecXi.                                                                   *)

(* C13: for a coefficient vector w, the intercept first when there is one,   *)
(* xi_ext = [max(w, 0), max(-w, 0)] has no negative entry and                *)
(* _get_xi_from_xi_ext(xi_ext) returns w again: (w[0], w[1:]) with an        *)
(* intercept, (0, w) without.                                                *)
C13_SignedRoundTrip ==
    (call # <<>> /\ call[1].who = "_get_xi_from_xi_ext") =>
        LET c == call[1]
        IN  /\ \A i \in 1..Len(c.xi_ext) : c.xi_ext[i] >= 0
            /\ c.fit_intercept =>
                  c.value = [xi_0 |-> c.w[1], xi |-> Tail(c.w)]
            /\ ~c.fit_intercept => c.value = [xi_0 |-> 0, xi |-> c.w]

C13_Witness ==
    /\ call # <<>>
    /\ call[1].who = "_get_xi_from_xi_ext"
    /\ call[1].fit_intercept
    /\ call[1].w[1] < 0
    /\ call[1].w[2] > 0
    /\ call[1].value.xi_0 = call[1].w[1]

(* C14: with fit_intercept the intercept is xi_ext[0] - xi_ext[n + 1], the   *)
(* elastic-net penalty is the same whatever these two entries are, and the   *)
(* penalty addend of the gradient _grad_P returns is 0 at these two          *)
(* positions.                                                                *)
C14_InterceptNotPenalized ==
    (call # <<>> /\ call[1].fit_intercept) =>
        LET c == call[1]
        IN  /\ c.who = "_get_xi_from_xi_ext" =>
                  c.value.xi_0 = c.xi_ext[1] - c.xi_ext[c.n + 2]
            /\ c.who = "_elastic_net_pen" => c.value = c.value_moved
            /\ c.who = "_grad_P" =>
                  /\ Len(c.value) = 2 * (c.n + 1)
                  /\ c.value[1].pen = 0
                  /\ c.value[c.n + 2].pen = 0

(* a penalty that is not 0, at two points that differ in the intercept only  *)
C14_Witness ==
    /\ call # <<>>
    /\ call[1].who = "_elastic_net_pen"
    /\ call[1].l > 0
    /\ call[1].eta < EtaDen
    /\ call[1].value > 0
    /\ call[1].moved[1] # call[1].xi_ext[1]
    /\ call[1].moved[call[1].n + 2] # call[1].xi_ext[call[1].n + 2]

---------------------------------------------------------------------------
(* Claims about the P sub-objective, checked under SpecP.                    *)

(* the signed recomposition of the xi_ext of a call: coordinate k of the     *)
(* first half minus coordinate k of the second                               *)
Recomposed(c) ==
    LET d == Len(c.xi_ext) \div 2 IN [k \in 1..d |-> c.xi_ext[k] - c.xi_ext[k + d]]

(* xi_0 + X_i . xi for subject i                                             *)
Predictor(c, i) ==
    LET w == Recomposed(c)
    IN  IF c.fit_intercept THEN w[1] + Dot(c.X[i], Tail(w)) ELSE Dot(c.X[i], w)

(* C15: the penalized P sub-objective at (pi_est, xi_ext) is the mean over   *)
(* the subjects of pi_est_i * logistic_loss(xi_0 + X_i . xi) plus the        *)
(* elastic-net penalty of xi_ext, by QNMCEM._P_func and by                   *)
(* MstepFunctions.P_pen_func.                                                *)
C15_PSubObjective ==
    (call # <<>> /\ call[1].who \in {"_P_func", "P_pen_func"}) =>
        LET c == call[1]
        IN  /\ c.outcome = "returned"
            /\ c.value[1].data =
                  TermSum([i \in 1..Len(c.X) |->
                      TermScale(c.pi_est[i], logistic_loss(Predictor(c, i)))])
            /\ c.value[1].pen =
                  c.l * ((EtaDen - c.eta) * 2 * L1Term(c) + c.eta * SqL2Term(c))

---------------------------------------------------------------------------
(* Claims about the sparse-group-L1 penalty, checked under SpecSG.           *)

(* eta * sum over the groups g in 1..upto of norm(group g of v)              *)
RECURSIVE GroupNorms(_, _, _, _)
GroupNorms(coef, v, L, upto) ==
    IF upto = 0 THEN Surd(0, 1)
    ELSE SurdAdd(Surd(coef, SqNorm(Group(v, L, upto))),
                 GroupNorms(coef, v, L, upto - 1))

(* C16: for every number L >= 1 of groups, the sparse-group-L1 penalty of    *)
(* v_ext is l_pen * ((1 - eta) * sum(v_ext) + eta * the sum over the L       *)
(* groups of the L2 norm of the group's part of v).                          *)
C16_SparseGroupL1Value ==
    (call # <<>> /\ call[1].who = "sparse_group_l1") =>
        LET c == call[1]
            d == Len(c.v_ext) \div 2
            v == [k \in 1..d |-> c.v_ext[k] - c.v_ext[k + d]]
        IN  c.value = SurdAdd(Surd(c.l * (EtaDen - c.eta) * Sum(c.v_ext), 1),
                              GroupNorms(c.l * c.eta, v, c.L, c.L))

(* C17: grad_sparse_group_l1 divides by no zero norm: every entry of the     *)
(* gradient it returns is finite, also for a v with all-zero groups.         *)
C17_GradientFiniteAtZeroGroup ==
    (call # <<>> /\ call[1].who = "grad_sparse_group_l1") =>
        \A j \in 1..Len(call[1].value) : Finite(call[1].value[j])

---------------------------------------------------------------------------
(* Claims about the association functions, checked under SpecAsso.           *)

Built == call # <<>> /\ call[1].who = "AssociationFunctions"

(* entry j (from 0) of the fixed-effect basis at time t: the monomial t^j    *)
(* for lp, its derivative for tps, IntScale(q_l) * its integral for ce       *)
Basis(kind, j, t, q_l) ==
    CASE kind = "lp" -> Pow(t, j)
      [] kind = "tps" -> IF j = 0 THEN 0 ELSE j * Pow(t, j - 1)
      [] kind = "ce" -> (IntScale(q_l) * Pow(t, j + 1)) \div (j + 1)

(* B_U(t_i) . beta_{k,l} + B_V(t_i) . S[m, 2l : 2l + 2], l from 1 here       *)
PhiEntry(c, kind, i, k, l, m) ==
    LET q_l == c.order + 1
    IN  SetSum(0..(q_l - 1),
               [j \in 0..(q_l - 1) |->
                   Basis(kind, j, c.T[i], q_l) * c.beta[k][q_l * (l - 1) + j + 1]])
        + SetSum(0..1,
                 [j \in 0..1 |->
                     Basis(kind, j, c.T[i], q_l) * c.S[m][2 * (l - 1) + j + 1]])

BasisRow(c, kind, i) ==
    [j \in 1..(c.order + 1) |-> Basis(kind, j - 1, c.T[i], c.order + 1)]

---------------------------------------------------------------------------
(* Claims about get_asso_func, checked under SpecStack.                      *)

Stacked == call # <<>> /\ call[1].who = "get_asso_func"

(* the instance that a call of get_asso_func builds                          *)
DictOf(c) ==
    AssociationFunctions(c.T_u, c.S, <<c.theta.beta_0, c.theta.beta_1>>,
                         c.order, c.L).assoc_func_dict

Width(c, name) == IF name = "re" THEN 2 * c.L ELSE c.L

(* the number of columns taken by the first f requested functions            *)
RECURSIVE Offset(_, _, _)
Offset(c, names, f) ==
    IF f = 0 THEN 0 ELSE Offset(c, names, f - 1) + Width(c, names[f])

C22_AllSelectsEverything ==
    (/\ Stacked
     /\ "str" \in DOMAIN call[1].asso_functions
     /\ Len(call[1].theta.beta_0) = (call[1].order + 1) * call[1].L) =>
        LET c == call[1]
            listed == get_asso_func(c.T_u, c.S, c.theta, [list |-> AllNames],
                                    c.L, c.order, c.derivative)
        IN  /\ c.outcome = "returned"
            /\ c.stack = listed.stack

(* C23: a coefficient vector that has not n_long_features * q_l entries,     *)
(* shorter or longer, makes the construction fail.                           *)
C23_MismatchRejected ==
    (/\ Stacked
     /\ Len(call[1].theta.beta_0) # (call[1].order + 1) * call[1].L) =>
        call[1].outcome # "returned"

---------------------------------------------------------------------------
(* Claims about cross-validation, checked under SpecCV.                      *)

Validated == call # <<>> /\ call[1].who \in {"QNMCEM.cross_validate", "cross_validate"}

(* C24: after cross_validate, for any grid, l_elastic_net_best is a grid     *)
(* value of maximal mean fold score and l_elastic_net_chosen is the largest  *)
(* grid value whose mean score is within one standard deviation of the best, *)
(* hence chosen >= best.                                                     *)
C24_BestAndChosen ==
    (Validated /\ call[1].who = "QNMCEM.cross_validate"
       /\ call[1].a.n_folds >= 2 /\ call[1].a.n_samples >= call[1].a.n_folds
       /\ call[1].grid # <<>>) =>
        LET c == call[1]
            n == c.a.n_folds
            tot == [i \in 1..Len(c.scores) |-> Sum(c.scores[i])]
        IN  /\ c.outcome = "returned"
            /\ Len(c.scores) = Len(c.grid)
            /\ \E b \in 1..Len(c.grid) :
                 /\ c.l_elastic_net_best = <<c.grid[b]>>
                 /\ \A j \in 1..Len(c.grid) : tot[j] <= tot[b]
                 /\ LET near == {i \in 1..Len(c.grid) :
                                    (tot[b] - tot[i]) * (tot[b] - tot[i])
                                       <= n * SqNorm(c.scores[b]) - tot[b] * tot[b]}
                    IN  /\ \E i \in near : c.l_elastic_net_chosen = <<c.grid[i]>>
                        /\ \A i \in near : c.grid[i] <= c.l_elastic_net_chosen[1]
                        /\ c.l_elastic_net_chosen[1] >= c.l_elastic_net_best[1]

(* C25: for every grid point and fold the driver fits the fold's learner on  *)
(* the training rows of X, Y, T, delta, each taken from its own array, then  *)
(* scores it on the test rows; every cell of the score matrix is written     *)
(* exactly once.                                                             *)
C25_FitOnTrainScoreOnTest ==
    (Validated /\ call[1].a.n_folds >= 2
       /\ call[1].a.n_samples >= call[1].a.n_folds /\ call[1].grid # <<>>) =>
        LET c == call[1]
        IN  /\ c.outcome = "returned"
            /\ Len(c.fits) = Len(c.grid) * c.a.n_folds
            /\ \A f \in 1..Len(c.fits) :
                 /\ c.fits[f].outcome = "entered"
                 /\ Len(c.fits[f].args) = 4
                 /\ \A x \in 1..4 :
                      c.fits[f].args[x].of = <<"X", "Y", "T", "delta">>[x]
            /\ Len(c.scores) = Len(c.grid)
            /\ \A i \in 1..Len(c.scores) : Len(c.scores[i]) = c.a.n_folds

---------------------------------------------------------------------------
(* Further claims about QNMCEM.fit and MLMM.fit, checked under Spec.         *)

(* C26: every fit() follows the state machine: the initializer runs once     *)
(* and returns before the first iteration, every iteration runs              *)
(* predict_proba, the E-step, the P-minimization, then for each group the    *)
(* R- and the Q-minimization, then the objective, and the run ends either    *)
(* converged or at the iteration cap.                                        *)
C26_FitStateMachine ==
    FitOver =>
        /\ pc = "done"
        /\ mlmm_history # <<>>
        /\ \A k \in 1..Len(iters) :
             {"pi_from", "pi_est", "xi_ext", "beta_0", "gamma_0", "beta_1",
              "gamma_1", "rel_obj"} \subseteq DOMAIN iters[k]
        /\ \/ iters # <<>> /\ LessTol(iters[Len(iters)].rel_obj)
           \/ Len(iters) = cfg.max_iter

(* the iteration numbers of a history, in the order of the records           *)
IterationNumbers(h) == [k \in 1..Len(h) |-> h[k].n_iter]

(* C29: within one fit() call of QNMCEM or of MLMM the iteration numbers of  *)
(* the history records are strictly increasing, and for max_iter >= 1 the    *)
(* last record carries the number of loop iterations executed.               *)
C29_IterationNumbersIncrease ==
    FitOver =>
        /\ \A i, j \in 1..Len(history) :
             i < j => IterationNumbers(history)[i] < IterationNumbers(history)[j]
        /\ \A i, j \in 1..Len(mlmm_history) :
             i < j => IterationNumbers(mlmm_history)[i] < IterationNumbers(mlmm_history)[j]
        /\ cfg.max_iter >= 1 =>
             /\ history # <<>>
             /\ LastRecord(history).n_iter = Len(iters)

---------------------------------------------------------------------------
(* Claim about the verbose flag, checked under SpecVerbose.                  *)

(* C30: two fit() runs that differ only in verbose append the same history   *)
(* records, in the learner and in its initializer, end the same way and with *)
(* the same parameters; the quiet run prints nothing.                        *)
C30_VerboseOnlyPrints ==
    (call # <<>> /\ call[1].who = "fit") =>
        /\ call[1].quiet.history = call[1].loud.history
        /\ call[1].quiet.mlmm_history = call[1].loud.mlmm_history
        /\ call[1].quiet.outcome = call[1].loud.outcome
        /\ call[1].quiet.self_xi_ext = call[1].loud.self_xi_ext
        /\ call[1].quiet.xi_ext = call[1].loud.xi_ext
        /\ call[1].quiet.out = <<>>

(* a run that returns, with records in both histories and lines printed by  *)
(* the verbose run only                                                      *)
C30_Witness ==
    /\ call # <<>>
    /\ call[1].who = "fit"
    /\ call[1].loud.out # <<>>
    /\ call[1].quiet.mlmm_history # <<>>
    /\ call[1].quiet.history # <<>>
    /\ call[1].quiet.outcome = "done"
    /\ Len(call[1].loud.out) > 2

---------------------------------------------------------------------------
(* Claim about the logistic functions on arrays, checked under SpecLogistic. *)

(* C28: exp is evaluated on non-positive arguments only, and for every input *)
(* every element of the result is written by exactly one of the two branches *)
(* (none is left as np.empty made it).                                       *)
C28_EveryElementWritten ==
    (call # <<>> /\ call[1].who = "logistic") =>
        /\ \A x \in call[1].exp_arguments : x <= 0
        /\ call[1].written_pos \cap call[1].written_neg = {}
        /\ call[1].written_pos \cup call[1].written_neg = 1..Len(call[1].z)
        /\ \A i \in 1..Len(call[1].z) :
             /\ call[1].grad[i].k = "term"
             /\ call[1].loss[i].k = "term"

---------------------------------------------------------------------------
(* Claim about the M-step gradients, checked under SpecGrad.                 *)

(* C27: each of grad_P, grad_R, grad_Q returns, for a parameter of dimension *)
(* d, a vector of length 2d whose entries 0..d-1 are the gradient g for the  *)
(* positive parts and whose entry d + i is -g[i].                            *)
C27_GradientLayout ==
    (call # <<>> /\ call[1].who = "MstepFunctions.grad") =>
        LET d == Len(call[1].grad)
        IN  /\ call[1].outcome = "returned"
            /\ Len(call[1].value) = 2 * d
            /\ \A i \in 1..d : call[1].value[d + i] = -call[1].value[i]

=============================================================================
